---- MODULE Spec2Model ----
(***************************************************************************)
(* Model of sanctions.py (EU-Sanktionen Explorer): the TTL-cached          *)
(* download of the sanctions XML through the RSS feed, the extraction of   *)
(* one record per sanctionEntity, and the Streamlit script run with its    *)
(* country / type / name filters and the CSV export.                       *)
(*                                                                         *)
(* Conventions.  A Python str is a sequence of one-character strings       *)
(* (<<"d","e">> is "de", <<>> is "").  An optional value (an attribute or  *)
(* child element that may be missing, a Python None) is a sequence of      *)
(* length 0 (missing) or 1 (present): <<>> is None, << <<>> >> is "".      *)
(***************************************************************************)
EXTENDS Integers, Sequences, FiniteSets, TLC

VARIABLES now, feed, fetch_cache, session_state, net, ui, arg, res

vars == <<now, feed, fetch_cache, session_state, net, ui, arg, res>>

(***************************************************************************)
(* Python string operations used by the script                             *)
(***************************************************************************)
Lowers == <<"a","b","c","d","e","f","g","h","i","j","k","l","m",
            "n","o","p","q","r","s","t","u","v","w","x","y","z">>

Uppers == <<"A","B","C","D","E","F","G","H","I","J","K","L","M",
            "N","O","P","Q","R","S","T","U","V","W","X","Y","Z">>

IsLowerChar(c) == \E i \in 1..Len(Lowers) : Lowers[i] = c

IsUpperChar(c) == \E i \in 1..Len(Uppers) : Uppers[i] = c

IsCased(c) == IsLowerChar(c) \/ IsUpperChar(c)

LowerChar(c) ==
    IF IsUpperChar(c) THEN Lowers[CHOOSE i \in 1..Len(Uppers) : Uppers[i] = c] ELSE c

UpperChar(c) ==
    IF IsLowerChar(c) THEN Uppers[CHOOSE i \in 1..Len(Lowers) : Lowers[i] = c] ELSE c

\* str.lower()
Lower(s) == [i \in 1..Len(s) |-> LowerChar(s[i])]

\* str.title(): a cased character is upper-cased when the character before it
\* is uncased (or there is none) and lower-cased otherwise.
RECURSIVE TitleFrom(_, _)
TitleFrom(s, prevCased) ==
    IF s = <<>> THEN <<>>
    ELSE LET c == Head(s)
             t == IF prevCased THEN LowerChar(c) ELSE UpperChar(c)
         IN  <<t>> \o TitleFrom(Tail(s), IsCased(c))

Title(s) == TitleFrom(s, FALSE)

IsSpace(c) == c \in {" ", "\t", "\n"}

RECURSIVE LStrip(_)
LStrip(s) == IF s # <<>> /\ IsSpace(Head(s)) THEN LStrip(Tail(s)) ELSE s

RECURSIVE RStrip(_)
RStrip(s) ==
    IF s # <<>> /\ IsSpace(s[Len(s)]) THEN RStrip(SubSeq(s, 1, Len(s) - 1)) ELSE s

\* str.strip()
Strip(s) == RStrip(LStrip(s))

\* dict.get(key, default) / Element.get(attribute, default)
Get(opt, default) == IF opt = <<>> THEN default ELSE opt[1]

Unbekannt == <<"U","n","b","e","k","a","n","n","t">>

Alle == <<"A","l","l","e">>

(***************************************************************************)
(* Configuration                                                           *)
(***************************************************************************)
RSS_FEED_URL == "https://webgate.ec.europa.eu/fsd/fsf/public/rss"

CACHE_TTL_SECONDS == 7 * 24 * 3600

XML_TYPE == "application/xml"

(***************************************************************************)
(* fetch_xml: resolution of the data URL from the feed                     *)
(* An enclosure is [type |-> mime, href |-> optional URL]; an entry is     *)
(* [enclosures |-> sequence of enclosures]; a feed is a sequence of        *)
(* entries (empty when the feed could not be parsed).                      *)
(***************************************************************************)
\* Python truth value of xml_url: None and "" are false.
Truthy(url) == url # <<>> /\ url[1] # ""

\* The inner loop: the first enclosure of type application/xml assigns its
\* href to xml_url and breaks; without one xml_url keeps its value.
RECURSIVE ScanEnclosures(_, _)
ScanEnclosures(encs, xml_url) ==
    IF encs = <<>> THEN xml_url
    ELSE IF Head(encs).type = XML_TYPE THEN Head(encs).href
    ELSE ScanEnclosures(Tail(encs), xml_url)

\* ScanEntries without the break of lines 30-31: the last entry wins.
RECURSIVE ScanEntriesNoBreak(_, _)
ScanEntriesNoBreak(entries, xml_url) ==
    IF entries = <<>> THEN xml_url
    ELSE ScanEntriesNoBreak(Tail(entries),
                            ScanEnclosures(Head(entries).enclosures, xml_url))

\* The outer loop: breaks once xml_url is truthy after an entry.
RECURSIVE ScanEntries(_, _)
ScanEntries(entries, xml_url) ==
    IF entries = <<>> THEN xml_url
    ELSE LET u == ScanEnclosures(Head(entries).enclosures, xml_url)
         IN  IF Truthy(u) THEN u ELSE ScanEntries(Tail(entries), u)

\* xml_url after the loops of lines 24-31
ResolveXmlUrl(f) == ScanEntries(f, <<>>)

(***************************************************************************)
(* fetch_xml: the download                                                 *)
(* An HTTP outcome is what session.get meets: a response with a status and *)
(* a body, a timeout, or a connection failure.                             *)
(***************************************************************************)
\* RaisesForStatus raising for server errors only
RaisesForServerErrorOnly(status) == 500 <= status /\ status < 600

\* response.raise_for_status(): HTTPError for 4xx and 5xx, nothing otherwise.
RaisesForStatus(status) == 400 <= status /\ status < 600

\* session.get(...) + raise_for_status() raise a RequestException
GetRaises(http) == http.kind # "response" \/ RaisesForStatus(http.status)

MSG_NO_LINK == "Kein gueltiger XML-Link im Feed gefunden!"

MSG_DOWNLOAD == "Fehler beim Download der XML-Datei"

MSG_NO_DATA == "Keine Daten geladen."

\* The body of fetch_xml (a cache miss): resolved is the xml_url the loops
\* left, get the URL a GET was issued to (none when resolution failed).
fetch_xml_body(f, http) ==
    LET xml_url == ResolveXmlUrl(f)
    IN  IF ~Truthy(xml_url)
        THEN [ok |-> FALSE, error |-> MSG_NO_LINK, get |-> <<>>, content |-> <<>>]
        ELSE IF GetRaises(http)
        THEN [ok |-> FALSE, error |-> MSG_DOWNLOAD, get |-> <<xml_url[1]>>,
              content |-> <<>>]
        ELSE [ok |-> TRUE, error |-> "", get |-> <<xml_url[1]>>,
              content |-> <<http.content>>]

\* Fresh serving the entry one instant too long
FreshInclusive(entry, t) == entry # <<>> /\ t <= entry[1].ts + CACHE_TTL_SECONDS

\* st.cache_data(ttl=...): an entry [value, ts] is served while now < ts + ttl.
Fresh(entry, t) == entry # <<>> /\ t < entry[1].ts + CACHE_TTL_SECONDS

\* fetch_xml(feed_url) through its cache: the call's result and the cache
\* after it.  Exceptions are not cached.
fetch_xml(cache, feed_url, f, http, t) ==
    IF Fresh(cache[feed_url], t)
    THEN [hit |-> TRUE, resolved |-> FALSE, get |-> <<>>, ok |-> TRUE, error |-> "",
          content |-> <<cache[feed_url][1].value>>, cache |-> cache]
    ELSE LET r == fetch_xml_body(f, http)
         IN  [hit |-> FALSE, resolved |-> TRUE, get |-> r.get, ok |-> r.ok,
              error |-> r.error, content |-> r.content,
              cache |-> IF r.ok
                        THEN [cache EXCEPT ![feed_url] =
                                  <<[value |-> r.content[1], ts |-> t]>>]
                        ELSE cache]

(***************************************************************************)
(* lade_sanktionen: the extraction                                         *)
(* The bytes of a document are modelled by what ET.parse makes of them:    *)
(* [wellformed, root, desc] with desc the elements below the root in       *)
(* document order.  An element is                                          *)
(*   [depth, inns, tag, euReferenceNumber, nameAlias, subjectType,         *)
(*    regulation, address]                                                 *)
(* inns: the element is in the namespace http://eu.europa.ec/fpi/fsd/export*)
(* nameAlias / subjectType / regulation / address: the first child of that *)
(* name in the namespace (what Element.find returns), if any.              *)
(***************************************************************************)
Person == <<"P","e","r","s","o","n">>

Entity == <<"E","n","t","i","t","y">>

\* SubjectType passing other codes through as written, not title-cased
SubjectTypeRawOther(code) ==
    IF Lower(code) = Lower(Person) THEN Person
    ELSE IF Lower(code) = <<"e","n","t","e","r","p","r","i","s","e">> THEN Entity
    ELSE code

\* line 58
SubjectType(code) ==
    IF Lower(code) = Lower(Person) THEN Person
    ELSE IF Lower(code) = <<"e","n","t","e","r","p","r","i","s","e">> THEN Entity
    ELSE Title(code)

\* Country without the test of line 78 for an empty description
CountryNoBlankTest(addr) ==
    IF addr = <<>> THEN Unbekannt
    ELSE Title(Strip(Get(addr[1].countryDescription, <<>>)))

\* lines 74-79
Country(addr) ==
    IF addr = <<>> THEN Unbekannt
    ELSE LET desc == Strip(Get(addr[1].countryDescription, <<>>))
         IN  IF desc # <<>> THEN Title(desc) ELSE Unbekannt

\* lines 67-71
PublicationUrl(reg) ==
    IF reg # <<>> /\ reg[1].publicationUrl # <<>> /\ reg[1].publicationUrl[1] # <<>>
    THEN Strip(reg[1].publicationUrl[1])
    ELSE <<>>

\* lines 51-90: the record of one sanctionEntity element
RecordOf(entity) ==
    LET name_alias == entity.nameAlias
        stype == entity.subjectType
        reg == entity.regulation
        code == IF stype # <<>> THEN Get(stype[1].code, Unbekannt) ELSE Unbekannt
    IN  [Referenznummer |-> Get(entity.euReferenceNumber, Unbekannt),
         Name |-> IF name_alias # <<>> THEN Get(name_alias[1].wholeName, Unbekannt)
                  ELSE Unbekannt,
         Typ |-> SubjectType(code),
         Land |-> Country(entity.address),
         Publikationsdatum |-> IF reg # <<>> THEN Get(reg[1].publicationDate, <<>>)
                               ELSE <<>>,
         Programm |-> IF reg # <<>> THEN Get(reg[1].programme, Unbekannt)
                      ELSE Unbekannt,
         Bemerkung |-> IF name_alias # <<>> THEN Get(name_alias[1].remark, <<>>)
                       ELSE <<>>,
         PublikationsUrl |-> PublicationUrl(reg)]

IsSanctionEntity(e) == e.inns /\ e.tag = "sanctionEntity"

\* root.findall(".//ns:sanctionEntity", ns): the matching elements below the
\* root, in document order (the root itself is not searched).
FindAllEntities(doc) == SelectSeq(doc.desc, IsSanctionEntity)

\* lade_sanktionen(xml_content): ET.parse raises ParseError on malformed
\* bytes; pd.DataFrame([]) has no columns, so df['Land'] raises KeyError when
\* no entity was found.
lade_sanktionen(xml_content) ==
    IF ~xml_content.wellformed THEN [raised |-> "ParseError", df |-> <<>>]
    ELSE LET ents == FindAllEntities(xml_content)
             sanktionen == [i \in 1..Len(ents) |-> RecordOf(ents[i])]
         IN  IF sanktionen = <<>> THEN [raised |-> "KeyError", df |-> <<>>]
             ELSE [raised |-> "", df |-> sanktionen]

(***************************************************************************)
(* The filter widgets, the name search and the export (lines 122-193)      *)
(* A DataFrame is the sequence of its rows.  The option lists of the       *)
(* widgets (sorted lists) are modelled by the sets of their elements.      *)
(***************************************************************************)
\* df[df['Land'].isin(land_filter)], and df itself for an empty selection
CountryFiltered(df, land_filter) ==
    IF land_filter = {} THEN df
    ELSE SelectSeq(df, LAMBDA r : r.Land \in land_filter)

\* sorted(df['Land'].unique())
LandOptions(df) == {df[i].Land : i \in 1..Len(df)}

\* TypeOptions taken from all rows, whatever countries are selected
TypeOptionsAllRows(df, land_filter) == {Alle} \cup {df[i].Typ : i \in 1..Len(df)}

\* options = ["Alle"] + types  (lines 146-151)
TypeOptions(df, land_filter) ==
    LET sub == CountryFiltered(df, land_filter)
    IN  {Alle} \cup {sub[i].Typ : i \in 1..Len(sub)}

\* filtered[filtered['Typ'] == typ_filter]  (lines 169-170)
TypeFiltered(df, typ_filter) ==
    IF typ_filter # Alle THEN SelectSeq(df, LAMBDA r : r.Typ = typ_filter) ELSE df

\* Series.str.contains(search, case=False) compiles search as a regular
\* expression (regex=True is the default) with re.IGNORECASE.  Of the
\* metacharacters only "." and "(" occur in the search strings modelled
\* (SearchChars): "." matches any character, and a "(" is never closed, so
\* re.compile raises re.error.
RegexRaises(pat) == \E k \in 1..Len(pat) : pat[k] = "("

RegexMatchAt(pat, s, i) ==
    \A k \in 1..Len(pat) : pat[k] = "." \/ LowerChar(pat[k]) = LowerChar(s[i + k - 1])

\* regex.search(s) is not None
RegexSearch(pat, s) ==
    \E i \in 1..(Len(s) - Len(pat) + 1) : RegexMatchAt(pat, s, i)

\* lines 172-176: the frame after the search, whether st.info was shown, and
\* the exception raised, if any
NameSearch(filtered, search) ==
    IF Len(search) >= 3
    THEN IF RegexRaises(search)
         THEN [raised |-> "re.error", filtered |-> <<>>, info |-> FALSE]
         ELSE [raised |-> "", info |-> FALSE,
               filtered |-> SelectSeq(filtered, LAMBDA r : RegexSearch(search, r.Name))]
    ELSE [raised |-> "", filtered |-> filtered,
          info |-> (0 < Len(search) /\ Len(search) < 3)]

\* lines 166-176
ApplyFilters(df, land_filter, typ_filter, search) ==
    NameSearch(TypeFiltered(CountryFiltered(df, land_filter), typ_filter), search)

CSV_HEADER == <<"EU-Referenznummer", "Name", "Typ", "Land", "Publikationsdatum",
                "Programm", "Bemerkung", "Publikations-URL">>

\* filtered.to_csv(index=False): the header line and one line per row
to_csv(filtered) ==
    <<CSV_HEADER>> \o
    [i \in 1..Len(filtered) |->
        <<filtered[i].Referenznummer, filtered[i].Name, filtered[i].Typ,
          filtered[i].Land, filtered[i].Publikationsdatum, filtered[i].Programm,
          filtered[i].Bemerkung, filtered[i].PublikationsUrl>>]

\* What a script run shows when it ends before the widgets: st.error +
\* st.stop ("error_stop"), or an exception nothing catches ("uncaught").
Stopped(status, message) ==
    [status |-> status, message |-> message, df |-> <<>>, land_options |-> {},
     options |-> {}, warning |-> <<>>, info |-> FALSE, filtered |-> <<>>,
     csv |-> <<>>]

\* lines 122-193 on a loaded, non-empty frame: the session state after the
\* run and what the run shows.
FilterSection(df, ss, button) ==
    LET land == IF button THEN {} ELSE Get(ss.land_filter, {})
        typ0 == IF button THEN Alle ELSE Get(ss.typ_filter, Alle)
        options == TypeOptions(df, land)
        missing == typ0 \notin options
        typ == IF missing THEN Alle ELSE typ0
        s == ApplyFilters(df, land, typ, ss.search_term)
        ss1 == [land_filter |-> <<land>>, typ_filter |-> <<typ>>,
                search_term |-> ss.search_term]
    IN  [session_state |-> ss1,
         ui |-> IF s.raised # ""
                THEN [Stopped("uncaught", s.raised) EXCEPT
                         !.df = df, !.land_options = LandOptions(df),
                         !.options = options]
                ELSE [status |-> "rendered", message |-> "", df |-> df,
                      land_options |-> LandOptions(df), options |-> options,
                      warning |-> IF missing THEN <<typ0>> ELSE <<>>,
                      info |-> s.info, filtered |-> s.filtered,
                      csv |-> to_csv(s.filtered)]]

(***************************************************************************)
(* The environment of the script: feeds, documents, HTTP outcomes          *)
(***************************************************************************)
Elem(depth, inns, tag, ref, alias, stype, reg, addr) ==
    [depth |-> depth, inns |-> inns, tag |-> tag, euReferenceNumber |-> ref,
     nameAlias |-> alias, subjectType |-> stype, regulation |-> reg,
     address |-> addr]

Plain(depth, inns, tag) == Elem(depth, inns, tag, <<>>, <<>>, <<>>, <<>>, <<>>)

ExportRoot == Plain(0, TRUE, "export")

Alias(wholeName, remark) == <<[wholeName |-> wholeName, remark |-> remark]>>

Code(code) == <<[code |-> code]>>

Regulation(date, programme, url) ==
    <<[publicationDate |-> date, programme |-> programme, publicationUrl |-> url]>>

Address(desc) == <<[countryDescription |-> desc]>>

\* The three entities of a small list: a person in "germany" without a
\* remark, an enterprise without an address, an entity without a nameAlias.
EntityOne ==
    Elem(1, TRUE, "sanctionEntity", << <<"1">> >>,
         Alias(<< <<"A","b","c">> >>, <<>>), Code(<< <<"p","e","r","s","o","n">> >>),
         Regulation(<< <<"2","0","2","4">> >>, << <<"R","U","S">> >>, << <<" ","u"," ">> >>),
         Address(<< <<"g","e","r","m","a","n","y">> >>))

EntityTwo ==
    Elem(1, TRUE, "sanctionEntity", << <<"2">> >>,
         Alias(<< <<"a","X","c"," ","A","B">> >>, << <<"r">> >>),
         Code(<< <<"e","n","t","e","r","p","r","i","s","e">> >>), <<>>, <<>>)

EntityThree ==
    Elem(1, TRUE, "sanctionEntity", << <<"3">> >>, <<>>,
         Code(<< <<"P","E","R","S","O","N">> >>), <<>>,
         Address(<< <<" ","G","E","R","M","A","N","Y">> >>))

EntityFour ==
    Elem(1, TRUE, "sanctionEntity", <<>>, Alias(<< <<"a","b">> >>, <<>>),
         Code(<< <<"v","e","s","s","e","l">> >>), <<>>,
         Address(<< <<"G","e","r","m","a","n","y">> >>))

DocMalformed == [wellformed |-> FALSE, root |-> ExportRoot, desc |-> <<>>]

DocNoEntities == [wellformed |-> TRUE, root |-> ExportRoot, desc |-> <<>>]

DocThree ==
    [wellformed |-> TRUE, root |-> ExportRoot,
     desc |-> <<EntityOne, EntityTwo, EntityThree>>]

DocTwo == [wellformed |-> TRUE, root |-> ExportRoot, desc |-> <<EntityFour, EntityOne>>]

Documents == {DocMalformed, DocNoEntities, DocThree, DocTwo}

Enc(type, href) == [type |-> type, href |-> href]

Entry(encs) == [enclosures |-> encs]

FeedsPublished ==
    { <<>>,
      <<Entry(<<Enc("text/html", <<"https://ec/page">>)>>)>>,
      <<Entry(<<Enc("text/html", <<"https://ec/page">>),
                Enc(XML_TYPE, <<"https://ec/list-1.xml">>)>>)>>,
      <<Entry(<<Enc(XML_TYPE, <<"https://ec/list-2.xml">>)>>),
        Entry(<<Enc(XML_TYPE, <<"https://ec/list-1.xml">>)>>)>> }

Response(status, content) == [kind |-> "response", status |-> status, content |-> content]

NoOutcome == [kind |-> "none", status |-> 0, content |-> DocMalformed]

HttpOutcomes ==
    {Response(200, d) : d \in Documents}
    \cup {Response(304, d) : d \in {DocMalformed, DocThree}}
    \cup {Response(st, DocMalformed) : st \in {404, 500}}
    \cup {[kind |-> k, status |-> 0, content |-> DocMalformed] :
              k \in {"timeout", "connection_error"}}

SearchTerms == { <<>>, <<"a","b">>, <<"a",".","c">>, <<"(","a","b">> }

\* lade_sanktionen is a pure function of the bytes, so what its cache
\* (st.cache_data, line 42) serves is what it computes: its value for each
\* document.
lade_sanktionen_cached == [d \in Documents |-> lade_sanktionen(d)]

(***************************************************************************)
(* The script run                                                          *)
(***************************************************************************)
MaxTicks == 3

\* The clock is sampled every half TTL.
TICK_SECONDS == CACHE_TTL_SECONDS \div 2

NoCall == [hit |-> FALSE, resolved |-> FALSE, get |-> <<>>, ok |-> FALSE,
           content |-> <<>>, http |-> <<>>]

Init ==
    /\ now = 0
    /\ feed \in FeedsPublished
    /\ fetch_cache = [u \in {RSS_FEED_URL} |-> <<>>]
    /\ session_state = [land_filter |-> <<>>, typ_filter |-> <<>>, search_term |-> <<>>]
    /\ net = NoCall
    /\ ui = Stopped("init", "")
    /\ arg = <<>>
    /\ res = <<>>

\* The HTTP outcomes the run can meet: none when it issues no GET.
OutcomesMet ==
    IF Fresh(fetch_cache[RSS_FEED_URL], now) \/ ~Truthy(ResolveXmlUrl(feed))
    THEN {NoOutcome} ELSE HttpOutcomes

\* One run of the script (lines 97-193) from session state ss, with the
\* reset button pressed or not, meeting some HTTP outcome if it downloads.
RunScript(ss, button) ==
    \E http \in OutcomesMet :
        LET f == fetch_xml(fetch_cache, RSS_FEED_URL, feed, http, now)
            p == lade_sanktionen_cached[f.content[1]]
            v == FilterSection(p.df, ss, button)
        IN  /\ fetch_cache' = f.cache
            /\ net' = [hit |-> f.hit, resolved |-> f.resolved, get |-> f.get,
                       ok |-> f.ok, content |-> f.content,
                       http |-> IF f.get # <<>> THEN <<http>> ELSE <<>>]
            /\ IF ~f.ok
               THEN ui' = Stopped("error_stop", f.error) /\ session_state' = ss
               ELSE IF p.raised # ""
               THEN ui' = Stopped("uncaught", p.raised) /\ session_state' = ss
               ELSE IF p.df = <<>>
               THEN ui' = Stopped("error_stop", MSG_NO_DATA) /\ session_state' = ss
               ELSE ui' = v.ui /\ session_state' = v.session_state
            /\ UNCHANGED <<now, feed, arg, res>>

\* The widgets of lines 129-172 were created by the last run.
WidgetsShown == ui.options # {}

\* The page is opened or rerun without a widget change.
Rerun == RunScript(session_state, FALSE)

\* "Filter zuruecksetzen" is pressed.
ClickReset == WidgetsShown /\ RunScript(session_state, TRUE)

\* The country multiselect is changed.
SelectLand ==
    /\ WidgetsShown
    /\ \E c \in SUBSET ui.land_options :
           RunScript([session_state EXCEPT !.land_filter = <<c>>], FALSE)

\* The type selectbox is changed.
SelectTyp ==
    /\ WidgetsShown
    /\ \E t \in ui.options :
           RunScript([session_state EXCEPT !.typ_filter = <<t>>], FALSE)

\* The search text input is changed.
TypeSearch ==
    /\ WidgetsShown
    /\ \E s \in SearchTerms :
           RunScript([session_state EXCEPT !.search_term = s], FALSE)

\* Time passes.
Tick ==
    /\ now + TICK_SECONDS <= MaxTicks * TICK_SECONDS
    /\ now' = now + TICK_SECONDS
    /\ UNCHANGED <<feed, fetch_cache, session_state, net, ui, arg, res>>

\* The publisher changes the feed.
FeedChange ==
    /\ feed' \in FeedsPublished \ {feed}
    /\ UNCHANGED <<now, fetch_cache, session_state, net, ui, arg, res>>

Next == Rerun \/ ClickReset \/ SelectLand \/ SelectTyp \/ TypeSearch \/ Tick \/ FeedChange

Spec == Init /\ [][Next]_vars

(***************************************************************************)
(* Properties of the script run (specification Spec)                       *)
(***************************************************************************)
\* A step that runs the script: the clock and the feed stay as they are.
ScriptStep == now' = now /\ feed' = feed

\* The cache entry of the feed URL is younger than the TTL of 7 days.
WithinTtl ==
    /\ fetch_cache[RSS_FEED_URL] # <<>>
    /\ now - fetch_cache[RSS_FEED_URL][1].ts < 7 * 24 * 3600

\* The run before the step served the cached bytes without touching the network.
ServedFromCache ==
    /\ net'.hit /\ net'.ok
    /\ net'.content = <<fetch_cache[RSS_FEED_URL][1].value>>
    /\ ~net'.resolved /\ net'.get = <<>>
    /\ fetch_cache' = fetch_cache

\* C1 as stated: within the TTL a call returns the cached bytes with no feed
\* resolution and no GET; the first call after expiry resolves the feed
\* again and issues a new GET.
C1_AsStated ==
    [][ScriptStep =>
          IF WithinTtl THEN ServedFromCache
          ELSE net'.resolved /\ net'.get # <<>>]_vars

\* C1 amended: within the TTL a call returns the cached bytes with no feed
\* resolution and no GET, whatever the feed now holds; a call after expiry
\* (or with nothing cached) resolves the feed again and issues a GET to the
\* URL resolved when the feed yields one; when it yields none the call
\* fails without a GET.
C1_CacheWithinTtl ==
    [][ScriptStep =>
          IF WithinTtl THEN ServedFromCache
          ELSE /\ net'.resolved /\ ~net'.hit
               /\ IF Truthy(ResolveXmlUrl(feed))
                  THEN net'.get = <<ResolveXmlUrl(feed)[1]>>
                  ELSE net'.get = <<>> /\ ~net'.ok]_vars

\* A run served bytes fetched earlier although the feed yields no data URL now.
C1_Witness ==
    /\ net.hit
    /\ fetch_cache[RSS_FEED_URL] # <<>>
    /\ fetch_cache[RSS_FEED_URL][1].ts < now
    /\ ~Truthy(ResolveXmlUrl(feed))

\* C3: bytes that cannot be parsed end the run on the error-and-stop path
\* of the fetch failures (one message by st.error, then st.stop), with no
\* records, filter result or export.
C3_MalformedStopsLikeFetchErrors ==
    (net.ok /\ ~net.content[1].wellformed) =>
        /\ ui.status = "error_stop" /\ ui.message # ""
        /\ ui.df = <<>> /\ ui.filtered = <<>> /\ ui.csv = <<>>

\* No entry of the feed has an enclosure of type application/xml.
NoXmlEnclosure(f) ==
    \A i \in 1..Len(f) : \A j \in 1..Len(f[i].enclosures) :
        f[i].enclosures[j].type # "application/xml"

\* The run stopped with a message before extraction, filtering and export,
\* and the call stored nothing in the cache.
StoppedWithMessage ==
    /\ ~net'.ok
    /\ ui'.status = "error_stop" /\ ui'.message # ""
    /\ ui'.df = <<>> /\ ui'.options = {} /\ ui'.filtered = <<>> /\ ui'.csv = <<>>
    /\ fetch_cache' = fetch_cache

RowsOfCountries(df, land) ==
    SelectSeq(df, LAMBDA r : land = {} \/ r.Land \in land)

\* C9: with no name search, every run that reaches the filters offers
\* exactly "Alle" and the types of the rows of the selected countries,
\* applies a type filter that is "Alle" or offered, and shows the rows of
\* the selected countries and the applied type; a notice is shown exactly
\* when the type going in was not offered, and then the filter is "Alle".
\* After a country selection the type going in is the one selected before.
C9_TypeFilterOffered ==
    [][(ScriptStep /\ ui'.options # {} /\ session_state'.search_term = <<>>) =>
          LET land == session_state'.land_filter[1]
              typ == session_state'.typ_filter[1]
              rows == RowsOfCountries(ui'.df, land)
              offered == {Alle} \cup {rows[i].Typ : i \in 1..Len(rows)}
          IN  /\ ui'.options = offered
              /\ typ \in offered
              /\ ui'.status = "rendered"
              /\ ui'.filtered = SelectSeq(rows, LAMBDA r : typ = Alle \/ r.Typ = typ)
              /\ ui'.warning # <<>> => (ui'.warning[1] \notin offered /\ typ = Alle)
              /\ SelectLand =>
                    IF session_state.typ_filter[1] \in offered
                    THEN typ = session_state.typ_filter[1] /\ ui'.warning = <<>>
                    ELSE typ = Alle /\ ui'.warning = session_state.typ_filter]_vars

\* A country selection left the selected type without rows: the filter was
\* reset with a notice and the rows of the country are shown.
C9_Witness ==
    /\ ui.status = "rendered" /\ ui.warning # <<>>
    /\ session_state.land_filter # <<>> /\ session_state.land_filter[1] # {}
    /\ session_state.typ_filter = <<Alle>>
    /\ session_state.search_term = <<>>
    /\ ui.filtered # <<>>

(***************************************************************************)
(* Feed resolution on every small feed (specification SpecResolve)         *)
(***************************************************************************)
MaxEntries == 2

MaxEnclosures == 2

\* All sequences over S of length at most n
SeqsUpTo(S, n) == UNION {[1..k -> S] : k \in 0..n}

\* Enclosures with a type and an href; the href of an XML enclosure may be
\* the empty string.
EnclosureInputs ==
    {Enc("text/html", <<"https://ec/page">>)}
    \cup {Enc(XML_TYPE, <<h>>) : h \in {"", "https://ec/list-1.xml", "https://ec/list-2.xml"}}

FeedInputs ==
    SeqsUpTo({Entry(encs) : encs \in SeqsUpTo(EnclosureInputs, MaxEnclosures)}, MaxEntries)

InitOther ==
    /\ now = 0
    /\ feed = <<>>
    /\ fetch_cache = [u \in {RSS_FEED_URL} |-> <<>>]
    /\ session_state = [land_filter |-> <<>>, typ_filter |-> <<>>, search_term |-> <<>>]
    /\ net = NoCall
    /\ ui = Stopped("init", "")

OtherUnchanged == UNCHANGED <<now, feed, fetch_cache, session_state, net, ui, arg>>

InitResolve == InitOther /\ arg \in {<<f>> : f \in FeedInputs} /\ res = <<>>

\* The body of fetch_xml runs on the feed.
ApplyResolve ==
    /\ res = <<>>
    /\ \E http \in {Response(200, DocTwo), [kind |-> "timeout", status |-> 0,
                                             content |-> DocMalformed]} :
           res' = <<fetch_xml_body(arg[1], http)>>
    /\ OtherUnchanged

SpecResolve == InitResolve /\ [][ApplyResolve]_vars

RECURSIVE AllEnclosures(_)
AllEnclosures(f) ==
    IF f = <<>> THEN <<>> ELSE Head(f).enclosures \o AllEnclosures(Tail(f))

IsXml(e) == e.type = "application/xml"

\* C2 as stated: the URL downloaded is the href of the first enclosure, in
\* entry order then enclosure order, whose type is application/xml.
C2_AsStated ==
    res # <<>> =>
        LET xmls == SelectSeq(AllEnclosures(arg[1]), IsXml)
        IN  IF xmls = <<>> THEN res[1].get = <<>> /\ ~res[1].ok
            ELSE res[1].get = xmls[1].href

\* The first XML enclosure of each entry that has one, in entry order
RECURSIVE FirstXmlPerEntry(_)
FirstXmlPerEntry(f) ==
    IF f = <<>> THEN <<>>
    ELSE LET xmls == SelectSeq(Head(f).enclosures, IsXml)
         IN  (IF xmls = <<>> THEN <<>> ELSE <<xmls[1]>>) \o FirstXmlPerEntry(Tail(f))

HasUrl(e) == e.href # <<>> /\ e.href[1] # ""

\* C2 amended: only the first XML enclosure of each entry is looked at; the
\* URL downloaded is the href of the first of these, in entry order, whose
\* href is not empty, and no later entry is used; when there is none the
\* call fails without a download.
C2_FirstUsableXmlEnclosure ==
    res # <<>> =>
        LET usable == SelectSeq(FirstXmlPerEntry(arg[1]), HasUrl)
        IN  IF usable = <<>> THEN res[1].get = <<>> /\ ~res[1].ok
            ELSE res[1].get = usable[1].href

\* Two entries carry different XML links and the first one was downloaded.
C2_Witness ==
    /\ res # <<>> /\ Len(arg[1]) = 2
    /\ arg[1][1].enclosures = <<Enc("text/html", <<"https://ec/page">>),
                                 Enc(XML_TYPE, <<"https://ec/list-2.xml">>)>>
    /\ arg[1][2].enclosures = <<Enc(XML_TYPE, <<"https://ec/list-1.xml">>)>>
    /\ res[1].get = <<"https://ec/list-2.xml">>

(***************************************************************************)
(* Extraction on small documents (specification SpecExtract)               *)
(***************************************************************************)
MaxNodes == 3

EntityOneAgain ==
    [EntityOne EXCEPT !.nameAlias = Alias(<< <<"a",".","c">> >>, <<>>)]

\* Elements that may stand below the root: entities (two of them with the
\* same reference number), a sanctionEntity outside the namespace, and
\* another element, each directly below the root or one level deeper.
NodeInputs ==
    {[e EXCEPT !.depth = d] :
        e \in {EntityOne, EntityOneAgain, EntityTwo,
               [EntityThree EXCEPT !.inns = FALSE], Plain(1, TRUE, "group")},
        d \in {1, 2}}

StructureDocs ==
    {[wellformed |-> TRUE, root |-> r, desc |-> q] :
        r \in {ExportRoot, [EntityFour EXCEPT !.depth = 0]},
        q \in {t \in SeqsUpTo(NodeInputs, MaxNodes) : t = <<>> \/ t[1].depth = 1}}

CodeInputs ==
    { <<>>, <<"p">>, <<"p","e","r","s","o","n">>, <<"P","E","R","S","O","N">>,
      <<"p","E","r","S","o","N">>, <<"p","e","r","s","o","n"," ">>,
      <<"e","n","t","e","r","p","r","i","s","e">>,
      <<"E","n","t","e","r","p","r","i","s","E">>,
      <<"e","n","t","i","t","y">>, <<"E","N","T","I","T","Y">>,
      <<"e","N","t","I","t","y">>, <<"v","e","s","s","e","l">>,
      <<"a","l","l","e">>, <<"s","h","i","p","-","o","w","n","e","r">> }

CountryInputs ==
    { <<>>, <<" ">>, <<"g","e","r","m","a","n","y">>, <<"G","E","R","M","A","N","Y">>,
      <<" ","g","e","r","m","a","n","y"," ">>, <<"n","e","w"," ","y","o","r","k">> }

Optional(S) == {<<>>} \cup {<<x>> : x \in S}

\* One entity with every combination of present and missing children and
\* attributes
EntityInputs ==
    {Elem(1, TRUE, "sanctionEntity", ref, alias, stype, reg, addr) :
        ref \in Optional({<<"1">>}),
        alias \in Optional([wholeName : Optional({<<"A","b","c">>}),
                            remark : Optional({<<>>, <<"r">>})]),
        stype \in Optional([code : Optional(CodeInputs)]),
        reg \in Optional([publicationDate : Optional({<<"2","0","2","4">>}),
                          programme : Optional({<<"R","U","S">>}),
                          publicationUrl : Optional({<<>>, <<" ">>, <<" ","u"," ">>})]),
        addr \in Optional([countryDescription : Optional(CountryInputs)])}

FieldDocs ==
    {[wellformed |-> TRUE, root |-> ExportRoot, desc |-> <<e>>] : e \in EntityInputs}

InitExtract ==
    /\ InitOther
    /\ arg \in {<<d>> : d \in StructureDocs \cup FieldDocs \cup {DocMalformed}}
    /\ res = <<>>

\* lade_sanktionen runs on the document.
ApplyExtract ==
    /\ res = <<>>
    /\ res' = <<lade_sanktionen(arg[1])>>
    /\ OtherUnchanged

SpecExtract == InitExtract /\ [][ApplyExtract]_vars

\* The elements of a document in document order, the root first
Elements(doc) == <<doc.root>> \o doc.desc

InNamespaceEntity(e) == e.tag = "sanctionEntity" /\ e.inns

\* C5: a well-formed document with n >= 0 sanctionEntity elements of the
\* namespace, at any depth, gives exactly n records, the i-th from the i-th
\* such element in document order, without deduplication.
C5_OneRecordPerEntity ==
    (res # <<>> /\ arg[1].wellformed) =>
        LET ents == SelectSeq(Elements(arg[1]), InNamespaceEntity)
        IN  /\ res[1].raised = ""
            /\ Len(res[1].df) = Len(ents)
            /\ \A i \in 1..Len(ents) : res[1].df[i] = RecordOf(ents[i])

Placeholder == <<"U","n","b","e","k","a","n","n","t">>

IsBlank(s) == \A i \in 1..Len(s) : s[i] \in {" ", "\t", "\n"}

\* The fields C6 fixes, for record r of entity e; country is the field
\* expected for a description that is present and not blank.
FieldsAsSpecified(r, e, country(_)) ==
    /\ r.Referenznummer =
           IF e.euReferenceNumber = <<>> THEN Placeholder ELSE e.euReferenceNumber[1]
    /\ e.nameAlias = <<>> => (r.Name = Placeholder /\ r.Bemerkung = <<>>)
    /\ e.nameAlias # <<>> =>
           /\ r.Name = IF e.nameAlias[1].wholeName = <<>> THEN Placeholder
                       ELSE e.nameAlias[1].wholeName[1]
           /\ r.Bemerkung = IF e.nameAlias[1].remark = <<>> THEN <<>>
                            ELSE e.nameAlias[1].remark[1]
    /\ e.regulation = <<>> =>
           /\ r.Publikationsdatum = <<>>
           /\ r.Programm = Placeholder
           /\ r.PublikationsUrl = <<>>
    /\ e.regulation # <<>> =>
           /\ r.Publikationsdatum = IF e.regulation[1].publicationDate = <<>> THEN <<>>
                                    ELSE e.regulation[1].publicationDate[1]
           /\ r.Programm = IF e.regulation[1].programme = <<>> THEN Placeholder
                           ELSE e.regulation[1].programme[1]
           /\ e.regulation[1].publicationUrl = <<>> => r.PublikationsUrl = <<>>
    /\ r.Land =
           IF \/ e.address = <<>>
              \/ e.address[1].countryDescription = <<>>
              \/ IsBlank(e.address[1].countryDescription[1])
           THEN Placeholder
           ELSE country(e.address[1].countryDescription[1])

\* The entities the extraction selects and their records correspond.
EveryRecord(P(_, _)) ==
    (res # <<>> /\ res[1].raised = "") =>
        LET ents == SelectSeq(arg[1].desc, InNamespaceEntity)
        IN  /\ Len(res[1].df) = Len(ents)
            /\ \A i \in 1..Len(ents) : P(res[1].df[i], ents[i])

\* C6 as stated: every record has its eight fields, with the placeholder or
\* "" for what is missing, and the title-cased description as country.
C6_AsStated ==
    EveryRecord(LAMBDA r, e : FieldsAsSpecified(r, e, LAMBDA d : Title(d)))

\* C6 amended: the same, the country being the title-cased description
\* after the whitespace around it is removed.
C6_FieldsAlwaysPopulated ==
    EveryRecord(LAMBDA r, e : FieldsAsSpecified(r, e, LAMBDA d : Title(Strip(d))))

\* An entity without nameAlias, regulation, address and reference number
\* gave a record of defaults.
C6_Witness ==
    /\ res # <<>> /\ res[1].raised = "" /\ Len(res[1].df) = 1
    /\ arg[1].desc[1].nameAlias = <<>> /\ arg[1].desc[1].regulation = <<>>
    /\ arg[1].desc[1].address = <<>> /\ arg[1].desc[1].euReferenceNumber = <<>>
    /\ res[1].df[1].Name = Placeholder /\ res[1].df[1].Land = Placeholder

SameIgnoringCase(a, b) ==
    Len(a) = Len(b) /\ \A i \in 1..Len(a) : LowerChar(a[i]) = LowerChar(b[i])

\* C7: the type is Person for a code equal to "person" ignoring case,
\* Entity for "enterprise" or "entity" ignoring case, the title-cased code
\* for any other code, and the placeholder without a subjectType or a code.
C7_SubjectTypeClassification ==
    EveryRecord(LAMBDA r, e :
        IF e.subjectType = <<>> \/ e.subjectType[1].code = <<>>
        THEN r.Typ = Placeholder
        ELSE LET code == e.subjectType[1].code[1]
             IN  IF SameIgnoringCase(code, <<"p","e","r","s","o","n">>)
                 THEN r.Typ = <<"P","e","r","s","o","n">>
                 ELSE IF \/ SameIgnoringCase(code, <<"e","n","t","e","r","p","r","i","s","e">>)
                         \/ SameIgnoringCase(code, <<"e","n","t","i","t","y">>)
                 THEN r.Typ = <<"E","n","t","i","t","y">>
                 ELSE r.Typ = Title(code) /\ SameIgnoringCase(r.Typ, code))

\* The code "entity" in mixed case gave the type Entity.
C7_Witness ==
    /\ res # <<>> /\ res[1].raised = "" /\ Len(res[1].df) = 1
    /\ arg[1].desc[1].subjectType = Code(<< <<"e","N","t","I","t","y">> >>)
    /\ res[1].df[1].Typ = <<"E","n","t","i","t","y">>

(***************************************************************************)
(* Filters, search and export on small frames (specification SpecFilter)   *)
(***************************************************************************)
MaxRows == 2

MaxSearchLen == 3

SearchChars == {"a", "B", "c", ".", "("}

RowInputs ==
    {RecordOf(e) : e \in {EntityOne, EntityOneAgain, EntityTwo, EntityThree, EntityFour}}

FilterInputs ==
    [df : SeqsUpTo(RowInputs, MaxRows) \ {<<>>},
     land_filter : SUBSET {r.Land : r \in RowInputs},
     typ_filter : {Alle} \cup {r.Typ : r \in RowInputs},
     search : SeqsUpTo(SearchChars, MaxSearchLen)]

InitFilter == InitOther /\ arg \in {<<x>> : x \in FilterInputs} /\ res = <<>>

\* Lines 166-193 run on the frame with the filter state.
ApplyFilter ==
    /\ res = <<>>
    /\ LET r == ApplyFilters(arg[1].df, arg[1].land_filter, arg[1].typ_filter,
                             arg[1].search)
       IN  res' = <<[raised |-> r.raised, filtered |-> r.filtered, info |-> r.info,
                     csv |-> IF r.raised = "" THEN to_csv(r.filtered) ELSE <<>>]>>
    /\ OtherUnchanged

SpecFilter == InitFilter /\ [][ApplyFilter]_vars

\* name contains s as a literal substring, compared ignoring case
ContainsIgnoringCase(name, s) ==
    \E i \in 1..(Len(name) - Len(s) + 1) :
        \A k \in 1..Len(s) : LowerChar(name[i + k - 1]) = LowerChar(s[k])

\* C8: with a search string of 3 or more characters the result is exactly
\* the rows whose name contains it literally, ignoring case, whatever
\* characters it holds; with 1 or 2 characters nothing is filtered by name
\* and an advisory is shown; with none nothing is filtered and no advisory
\* is shown.
C8_LiteralNameSearch ==
    res # <<>> =>
        LET a == arg[1]
            rows == TypeFiltered(CountryFiltered(a.df, a.land_filter), a.typ_filter)
        IN  /\ res[1].raised = ""
            /\ res[1].filtered =
                   IF Len(a.search) >= 3
                   THEN SelectSeq(rows, LAMBDA r : ContainsIgnoringCase(r.Name, a.search))
                   ELSE rows
            /\ res[1].info = (Len(a.search) \in {1, 2})

\* A row satisfies every active filter of the filter state.
Satisfies(r, a) ==
    /\ a.land_filter # {} => r.Land \in a.land_filter
    /\ a.typ_filter # Alle => r.Typ = a.typ_filter
    /\ Len(a.search) >= 3 => ContainsIgnoringCase(r.Name, a.search)

\* C10: for every frame and filter state the result is the subsequence of
\* the rows satisfying every active filter, filtering the result again gives
\* the same result, and the export has the header and one line per row of
\* the result.
C10_ConjunctiveNarrowing ==
    res # <<>> =>
        LET a == arg[1]
        IN  /\ res[1].raised = ""
            /\ res[1].filtered = SelectSeq(a.df, LAMBDA r : Satisfies(r, a))
            /\ ApplyFilters(res[1].filtered, a.land_filter, a.typ_filter,
                            a.search).filtered = res[1].filtered
            /\ Len(res[1].csv) = 1 + Len(res[1].filtered)
            /\ res[1].csv[1] = CSV_HEADER

====
